---- MODULE Spec2Model ----
(***************************************************************************)
(* Syllabus change-detection pipeline (scrape.ts and its helpers).          *)
(*                                                                         *)
(* Two entry points exist: the notifying scraper (index-based worker pool, *)
(* Slack notification) and the self-contained scraper with login           *)
(* (queue.shift() worker pool, no notification).  Both share loadPrev,      *)
(* saveCurr, makeHash, normalizeText, compareCourses and fetchDetail.       *)
(*                                                                         *)
(* Strings of the program are modelled as sequences of one-character        *)
(* strings; ids and URLs as sequences of tokens.  A JS Map is a sequence    *)
(* of [key, value] entries with pairwise distinct keys, in insertion order. *)
(***************************************************************************)
EXTENDS Integers, Sequences, FiniteSets, TLC

\* ---------------------------------------------------------------- bounds

\* Longest stub list the record source returns in a single run (Spec).
MaxStubs == 4

\* Longest stub list of each run of a sequence of runs against the same
\* snapshot file (SpecRuns).
MaxRunStubs == 2

\* Longest string given to normalizeText alone (SpecText).
MaxText == 4

\* Longest white-space variation put into a raw record (SpecNoise).
MaxNoise == 2

\* ------------------------------------------------------------ characters

NBSP == "nbsp"

IsSpace_ascii(c) == c \in {" ", "\n", "\r", "\t"}

\* The JS regex class \s restricted to the characters of the model.
IsSpace(c) == c \in {" ", "\n", "\r", "\t", NBSP}

\* `undefined`, the value of an optional field that is absent.
Undef == <<"undefined">>

\* s ?? d
Coalesce(s, d) == IF s = Undef THEN d ELSE s

\* -------------------------------------------------------- normalizeText

\* Marks a character that a replace removes.
Dropped == "dropped"

Kept(s) ==
  LET Keep(c) == c # Dropped
  IN SelectSeq(s, Keep)

\* .replace(/\r?\n+/g, " "): a match starts at a CR that a LF follows, or at
\* a LF that follows neither a LF nor a CR; its first character becomes the
\* space, its other characters go.
ReplaceNewlines(s) ==
  Kept([k \in 1..Len(s) |->
          IF s[k] = "\n"
            THEN IF k > 1 /\ s[k - 1] \in {"\n", "\r"} THEN Dropped ELSE " "
          ELSE IF s[k] = "\r" /\ k < Len(s) /\ s[k + 1] = "\n" THEN " "
          ELSE s[k]])

\* .replace(/\s+/g, " "): the first character of a run of white space becomes
\* the space, its other characters go.
CollapseSpaces(s) ==
  Kept([k \in 1..Len(s) |->
          IF IsSpace(s[k])
            THEN IF k > 1 /\ IsSpace(s[k - 1]) THEN Dropped ELSE " "
          ELSE s[k]])

\* .replace(/\u00A0/g, " ")
ReplaceNbsp(s) == [k \in 1..Len(s) |-> IF s[k] = NBSP THEN " " ELSE s[k]]

\* .trim()
Trim(s) ==
  LET inked == {k \in 1..Len(s) : ~IsSpace(s[k])}
  IN IF inked = {} THEN <<>>
     ELSE SubSeq(s, CHOOSE k \in inked : \A j \in inked : k <= j,
                    CHOOSE k \in inked : \A j \in inked : k >= j)

normalizeText_trimOnly(s) == Trim(Coalesce(s, <<>>))

normalizeText(s) ==
  Trim(ReplaceNbsp(CollapseSpaces(ReplaceNewlines(Coalesce(s, <<>>)))))

\* ------------------------------------------------------------- makeHash

\* Array.prototype.join
RECURSIVE Join(_, _)
Join(parts, sep) ==
  IF parts = <<>> THEN <<>>
  ELSE IF Len(parts) = 1 THEN parts[1]
  ELSE parts[1] \o <<sep>> \o Join(Tail(parts), sep)

\* [course.title, ..., course.bodyText].map(normalizeText)
CanonFields(course) ==
  <<normalizeText(course.title),
    normalizeText(course.instructor),
    normalizeText(course.term),
    normalizeText(course.dayPeriod),
    normalizeText(Coalesce(course.room, <<>>)),
    normalizeText(Coalesce(course.updatedAt, <<>>)),
    normalizeText(course.bodyText)>>

\* The string that is hashed.
HashKey(course) == Join(CanonFields(course), "|")

\* sha256(...).digest("hex"), taken as collision-free: the digest of a key
\* is the key itself under a "sha256" tag.
Sha256Hex(key) == <<"sha256">> \o key

makeHash(course) == Sha256Hex(HashKey(course))

\* ------------------------------------------------------------------ Map

RECURSIVE MapIndex(_, _)
\* Position of key k in map m, 0 when absent.
MapIndex(m, k) ==
  IF m = <<>> THEN 0
  ELSE IF m[Len(m)].id = k THEN Len(m)
  ELSE MapIndex(SubSeq(m, 1, Len(m) - 1), k)

MapHas(m, k) == MapIndex(m, k) # 0

MapGet(m, k) == m[MapIndex(m, k)]

MapKeys(m) == {m[k].id : k \in 1..Len(m)}

MapSet_firstWins(m, c) ==
  IF MapHas(m, c.id) THEN m ELSE Append(m, c)

\* Map.prototype.set: an existing key keeps its position and takes the new
\* value; a new key is appended.
MapSet(m, c) ==
  IF MapHas(m, c.id) THEN [m EXCEPT ![MapIndex(m, c.id)] = c]
  ELSE Append(m, c)

\* new Map(arr.map(c => [c.id, c]))
RECURSIVE MapFrom(_)
MapFrom(arr) ==
  IF arr = <<>> THEN <<>>
  ELSE MapSet(MapFrom(SubSeq(arr, 1, Len(arr) - 1)), arr[Len(arr)])

\* -------------------------------------------------------- compareCourses

RECURSIVE ChangedOf(_, _)
\* The first loop's `changed` list: entries of curr, in order, whose id is in
\* prev with another hash.
ChangedOf(prev, curr) ==
  IF curr = <<>> THEN <<>>
  ELSE LET c == Head(curr)
           rest == ChangedOf(prev, Tail(curr))
       IN IF MapHas(prev, c.id) /\ MapGet(prev, c.id).hash # c.hash
            THEN <<[before |-> MapGet(prev, c.id), after |-> c]>> \o rest
            ELSE rest

compareCourses_fieldwise(prev, curr) ==
  LET IsNew(c) == ~MapHas(prev, c.id)
      IsGone(p) == ~MapHas(curr, p.id)
      Differs(c) == MapHas(prev, c.id) /\ MapGet(prev, c.id) # c
      ch == SelectSeq(curr, Differs)
  IN [added |-> SelectSeq(curr, IsNew),
      changed |-> [k \in 1..Len(ch) |->
                     [before |-> MapGet(prev, ch[k].id), after |-> ch[k]]],
      removed |-> SelectSeq(prev, IsGone)]

compareCourses_noRemoved(prev, curr) ==
  LET IsNew(c) == ~MapHas(prev, c.id)
  IN [added |-> SelectSeq(curr, IsNew),
      changed |-> ChangedOf(prev, curr),
      removed |-> <<>>]

compareCourses_byPosition(prev, curr) ==
  LET both == {k \in 1..Len(curr) : k <= Len(prev)}
      Moved(c) == \E k \in both : curr[k] = c /\ prev[k].hash # c.hash
      ch == SelectSeq(curr, Moved)
  IN [added |-> SubSeq(curr, Len(prev) + 1, Len(curr)),
      changed |-> [k \in 1..Len(ch) |->
                     [before |-> prev[CHOOSE j \in both : curr[j] = ch[k]],
                      after |-> ch[k]]],
      removed |-> SubSeq(prev, Len(curr) + 1, Len(prev))]

compareCourses(prev, curr) ==
  LET IsNew(c) == ~MapHas(prev, c.id)
      IsGone(p) == ~MapHas(curr, p.id)
  IN [added |-> SelectSeq(curr, IsNew),
      changed |-> ChangedOf(prev, curr),
      removed |-> SelectSeq(prev, IsGone)]

NoDiffs == [added |-> <<>>, changed |-> <<>>, removed |-> <<>>]

\* ------------------------------------------------- JSON, loadPrev, saveCurr

\* Property order of a Course object built by fetchDetail ({...base, hash}).
CourseFields ==
  <<"id", "title", "instructor", "term", "dayPeriod", "room", "updatedAt",
    "bodyText", "detailUrl", "hash">>

\* JSON.stringify of one object: its [key, value] pairs in property order,
\* a property whose value is undefined being left out.
StringifyObject_dropsEmpty(c) ==
  LET Defined(p) == p[2] # Undef /\ p[2] # <<>>
  IN SelectSeq([k \in 1..Len(CourseFields) |->
                  <<CourseFields[k], c[CourseFields[k]]>>], Defined)

StringifyObject(c) ==
  LET Defined(p) == p[2] # Undef
  IN SelectSeq([k \in 1..Len(CourseFields) |->
                  <<CourseFields[k], c[CourseFields[k]]>>], Defined)

\* JSON.stringify(courses, null, 2)
JsonStringify(arr) == [k \in 1..Len(arr) |-> StringifyObject(arr[k])]

RECURSIVE PairValue(_, _)
\* Value of property `key` of a parsed object, undefined when it has none.
PairValue(pairs, key) ==
  IF pairs = <<>> THEN Undef
  ELSE IF pairs[Len(pairs)][1] = key THEN pairs[Len(pairs)][2]
  ELSE PairValue(SubSeq(pairs, 1, Len(pairs) - 1), key)

ParseObject(pairs) ==
  [f \in {CourseFields[k] : k \in 1..Len(CourseFields)} |-> PairValue(pairs, f)]

\* JSON.parse of a text that is a JSON array of objects
JsonParse(items) == [k \in 1..Len(items) |-> ParseObject(items[k])]

\* The snapshot file: absent or unreadable, present with a text that is no
\* JSON, or present with a JSON text.  shape tells what JSON.parse returns:
\* "array" an array of non-null values (items: its elements as objects),
\* "noArray" a value without a map method (an object, a number, null),
\* "nullItem" an array that holds a null.
NoFile ==
  [exists |-> FALSE, valid |-> FALSE, shape |-> "none", items |-> <<>>]

GarbageFile ==
  [exists |-> TRUE, valid |-> FALSE, shape |-> "none", items |-> <<>>]

\* A file with the text `{}`.
NoArrayFile ==
  [exists |-> TRUE, valid |-> TRUE, shape |-> "noArray", items |-> <<>>]

\* A file with the text `[null]`.
NullItemFile ==
  [exists |-> TRUE, valid |-> TRUE, shape |-> "nullItem", items |-> <<>>]

\* A file with the text `[{}]`.
IdlessFile ==
  [exists |-> TRUE, valid |-> TRUE, shape |-> "array", items |-> << <<>> >>]

\* try { readFileSync; JSON.parse; new Map(arr.map(c => [c.id, c])) }
\* catch { return new Map() }: readFileSync throws on a missing or unreadable
\* file, JSON.parse on a text that is no JSON, arr.map when arr has no map
\* method, c.id when c is null.
loadPrev(f) ==
  IF ~f.exists THEN <<>>
  ELSE IF ~f.valid THEN <<>>
  ELSE IF f.shape # "array" THEN <<>>
  ELSE MapFrom(JsonParse(f.items))

saveCurr(courses) ==
  [exists |-> TRUE, valid |-> TRUE, shape |-> "array",
   items |-> JsonStringify(courses)]

\* ------------------------------------------------------ the record source

\* States of the scraped site: 1 the baseline, 2 the baseline with whitespace
\* noise only, 3 with changed detail text.
Versions == {1, 2, 3}

\* A further state of the site: as the baseline with changed detail text,
\* and the detail URL of row 2 carries the id of row 1.
DupSite == 4

\* The k-th row of the result list.  Row 1 carries its id, row 2 only in the
\* detail URL's query, row 3 resolves to the id of row 1, row 4 has no id at
\* all.
StubAt(k, v) ==
  [id |-> IF k = 1 THEN <<"A">>
          ELSE IF k \in 2..4 THEN <<>>
          ELSE <<"S", ToString(k)>>,
   title |-> IF v = 2 THEN <<" ", "T", NBSP, "\n", ToString(k), "\t">>
             ELSE <<"T", " ", ToString(k)>>,
   url |-> IF k = 2 /\ v = DupSite THEN <<"u2", "?", "id", "=", "A">>
           ELSE IF k = 2 THEN <<"u2", "?", "id", "=", "B">>
           ELSE IF k = 3 THEN <<"u3", "?", "x", "=", "1", "&", "id", "=", "A">>
           ELSE <<"u", ToString(k)>>,
   instructor |-> <<"I">>,
   term |-> IF v = 2 THEN <<"\r", "\n", "H">> ELSE <<"H">>,
   dayPeriod |-> <<"M", " ", "1">>]

\* What page.evaluate extracts from the detail page of row k.
PayloadAt(k, v) ==
  [bodyText |-> IF v = 1 THEN <<"x", "\r", "\n", "y">>
                ELSE IF v = 2 THEN <<"\n", "x", " ", NBSP, "y", " ">>
                ELSE <<"x", "z">>,
   updatedAt |-> IF v = 3 THEN <<"d", "2">> ELSE <<"d", "1">>,
   room |-> <<>>]

RECURSIVE QueryGet(_, _)
\* new URL(url).searchParams.get(name), "" when the query has no such
\* parameter; every URL of the model is absolute, so new URL does not throw.
QueryGet(toks, name) ==
  IF Len(toks) < 3 THEN <<>>
  ELSE IF toks[1] \in {"?", "&"} /\ toks[2] = name /\ Len(toks) >= 4
          /\ toks[3] = "="
    THEN <<toks[4]>>
  ELSE QueryGet(Tail(toks), name)

idFromUrl(url) ==
  IF QueryGet(url, "id") # <<>> THEN QueryGet(url, "id") ELSE url

BuildCourse_staleHash(item, payload) ==
  LET base == [id |-> IF item.id # <<>> THEN item.id ELSE idFromUrl(item.url),
               title |-> normalizeText(item.title),
               instructor |-> normalizeText(item.instructor),
               term |-> normalizeText(item.term),
               dayPeriod |-> normalizeText(item.dayPeriod),
               room |-> normalizeText(payload.room),
               updatedAt |-> normalizeText(payload.updatedAt),
               bodyText |-> normalizeText(payload.bodyText),
               detailUrl |-> item.url]
  IN [f \in DOMAIN base \cup {"hash"} |->
        IF f = "hash" THEN makeHash([base EXCEPT !.bodyText = <<>>])
        ELSE base[f]]

\* fetchDetail's `base` and `{ ...base, hash }`.
BuildCourse(item, payload) ==
  LET base == [id |-> IF item.id # <<>> THEN item.id ELSE idFromUrl(item.url),
               title |-> normalizeText(item.title),
               instructor |-> normalizeText(item.instructor),
               term |-> normalizeText(item.term),
               dayPeriod |-> normalizeText(item.dayPeriod),
               room |-> normalizeText(payload.room),
               updatedAt |-> normalizeText(payload.updatedAt),
               bodyText |-> normalizeText(payload.bodyText),
               detailUrl |-> item.url]
  IN [f \in DOMAIN base \cup {"hash"} |->
        IF f = "hash" THEN makeHash(base) ELSE base[f]]

\* ------------------------------------------------------------------ state

VARIABLES
  variant,    \* "index": the notifying scraper; "shift": the scraper with login
  cfgOk,      \* the required environment values are set
  site,       \* state of the scraped site during this run
  file,       \* the snapshot file OUTPUT_JSON
  mpc,        \* main(): number of the statement in progress, 0 before main
  spc,        \* scrapeListAndDetails(): the await it is suspended at
  prev,       \* main's prev
  list,       \* the stub list (numbers of the rows)
  queue,      \* scrapeListAndDetails' queue
  i,          \* the index-based pool's shared index
  wpc,        \* per worker: the await it is suspended at
  wItem,      \* per worker: the row it holds
  courses,    \* the shared result array
  diffs,      \* main's diffs
  exitCode,   \* -1 while the process runs, then its exit status
  failCause,  \* what made the process exit with status 1
  log,        \* main's statements in the order they ran in this run
  outcome,    \* per row: "none", "ok" (record pushed) or "failed" (caught)
  fetches,    \* per row: number of calls of fetchDetail with it
  input,      \* arguments of a function that is run alone, else <<>>
  output,     \* its results so far
  earlier     \* what is known of the run before this one, <<>> if nothing

vars ==
  <<variant, cfgOk, site, file, mpc, spc, prev, list, queue, i, wpc,
    wItem, courses, diffs, exitCode, failCause, log, outcome, fetches,
    input, output, earlier>>

MAX_CONCURRENCY == 3

\* Slots of the workers array: one more than the spawn loop may fill, so that
\* the number of workers is what the loop makes it.
Workers == 1..(MAX_CONCURRENCY + 1)

Running == -1

Min(a, b) == IF a < b THEN a ELSE b

\* ----------------------------------------------------------------- main

main_persistFirst(v) ==
  IF v = "index"
    THEN <<"loadPrev", "scrapeListAndDetails", "compareCourses", "saveCurr",
           "notifySlack">>
    ELSE <<"loadPrev", "scrapeListAndDetails", "compareCourses", "saveCurr">>

\* The statements of main(), in program order, of either entry point.
main(v) ==
  IF v = "index"
    THEN <<"loadPrev", "scrapeListAndDetails", "compareCourses", "notifySlack",
           "saveCurr">>
    ELSE <<"loadPrev", "scrapeListAndDetails", "compareCourses", "saveCurr">>

\* The statement main() is at.
Stmt ==
  IF mpc \in 1..Len(main(variant)) THEN main(variant)[mpc] ELSE "none"

\* main().catch(err => process.exit(1)), and process.exit(1) elsewhere
Exit1(cause) ==
  /\ exitCode' = 1
  /\ failCause' = cause

\* Completing statement mpc: the next statement, or the end of main.
Advance ==
  /\ mpc' = mpc + 1
  /\ IF mpc = Len(main(variant))
       THEN exitCode' = 0
       ELSE exitCode' = exitCode
  /\ failCause' = failCause

\* ------------------------------------------------------------ worker pool

WorkerLoop_sameHead(v, st, w) ==
  IF v = "index"
    THEN IF st.i < Len(st.queue)
           THEN [st EXCEPT !.wpc[w] = "newPage",
                           !.wItem[w] = st.queue[st.i + 1]]
           ELSE [st EXCEPT !.wpc[w] = "done", !.wItem[w] = 0]
    ELSE IF Len(st.queue) > 0
           THEN [st EXCEPT !.wpc[w] = "newPage",
                           !.wItem[w] = Head(st.queue)]
           ELSE [st EXCEPT !.wpc[w] = "done", !.wItem[w] = 0]

\* One worker's loop head, run until its first await or its return:
\*   index:  while (i < queue.length) { const idx = i++; ... fetchDetail(it) }
\*   shift:  while (queue.length) { const item = queue.shift(); ... }
\* Every element of queue is a stub object, so `if (!it) continue` and
\* `if (item)` never skip one.
WorkerLoop(v, st, w) ==
  IF v = "index"
    THEN IF st.i < Len(st.queue)
           THEN [st EXCEPT !.i = st.i + 1,
                           !.wpc[w] = "newPage",
                           !.wItem[w] = st.queue[st.i + 1]]
           ELSE [st EXCEPT !.wpc[w] = "done", !.wItem[w] = 0]
    ELSE IF Len(st.queue) > 0
           THEN [st EXCEPT !.queue = Tail(st.queue),
                           !.wpc[w] = "newPage",
                           !.wItem[w] = Head(st.queue)]
           ELSE [st EXCEPT !.wpc[w] = "done", !.wItem[w] = 0]

RECURSIVE SpawnFrom_oneMore(_, _, _)
SpawnFrom_oneMore(v, st, started) ==
  IF started < Min(MAX_CONCURRENCY + 1, Len(st.queue))
    THEN SpawnFrom_oneMore(v, WorkerLoop(v, st, started + 1), started + 1)
    ELSE st

RECURSIVE SpawnFrom(_, _, _)
\* for (let w = 0; w < Math.min(MAX_CONCURRENCY, queue.length); w++)
\*   workers.push((async function worker() {...})());
\* started = w; queue.length is read again on every iteration.
SpawnFrom(v, st, started) ==
  IF started < Min(MAX_CONCURRENCY, Len(st.queue))
    THEN SpawnFrom(v, WorkerLoop(v, st, started + 1), started + 1)
    ELSE st

\* The pool's variables as one record.
Pool == [queue |-> queue, i |-> i, wpc |-> wpc, wItem |-> wItem]

SetPool(st) ==
  /\ queue' = st.queue
  /\ i' = st.i
  /\ wpc' = st.wpc
  /\ wItem' = st.wItem
  /\ fetches' = [k \in DOMAIN fetches |->
                   fetches[k] + Cardinality({w \in Workers :
                      /\ st.wpc[w] = "newPage"
                      /\ st.wItem[w] = k
                      /\ (wpc[w] # "newPage" \/ wItem[w] # k)})]

NoWorkers == [w \in Workers |-> "idle"]

NoItems == [w \in Workers |-> 0]

\* ----------------------------------------------------------------- Init

Rows == 1..(IF MaxStubs > MaxRunStubs THEN MaxStubs ELSE MaxRunStubs)

FreshRun ==
  /\ mpc = 0
  /\ spc = "none"
  /\ prev = <<>>
  /\ list = <<>>
  /\ queue = <<>>
  /\ i = 0
  /\ wpc = NoWorkers
  /\ wItem = NoItems
  /\ courses = <<>>
  /\ diffs = NoDiffs
  /\ exitCode = Running
  /\ failCause = "none"
  /\ log = <<>>
  /\ outcome = [k \in Rows |-> "none"]
  /\ fetches = [k \in Rows |-> 0]
  /\ input = <<>>
  /\ output = <<>>
  /\ earlier = <<>>

\* The first run: no snapshot was ever written.
Init ==
  /\ variant \in {"index", "shift"}
  /\ cfgOk \in BOOLEAN
  /\ site = 1
  /\ file = NoFile
  /\ FreshRun

\* -------------------------------------------------------------- actions

\* if (!BASE_URL) { ...; process.exit(1); }  (and the credentials check)
ConfigCheck ==
  /\ exitCode = Running
  /\ mpc = 0
  /\ IF cfgOk
       THEN mpc' = 1 /\ UNCHANGED <<exitCode, failCause>>
       ELSE Exit1("config") /\ UNCHANGED mpc
  /\ UNCHANGED <<variant, cfgOk, site, file, spc, prev, list, queue, i, wpc,
                 wItem, courses, diffs, log, outcome, fetches, input, output,
                 earlier>>

\* const prev = loadPrev(OUTPUT_JSON);
LoadPrev ==
  /\ exitCode = Running
  /\ Stmt = "loadPrev"
  /\ prev' = loadPrev(file)
  /\ log' = Append(log, "loadPrev")
  /\ Advance
  /\ UNCHANGED <<variant, cfgOk, site, file, spc, list, queue, i, wpc, wItem,
                 courses, diffs, outcome, fetches, input, output, earlier>>

\* scrapeListAndDetails() is called and suspends while the browser opens the
\* search page and the result list is extracted.
ScrapeStart ==
  /\ exitCode = Running
  /\ Stmt = "scrapeListAndDetails"
  /\ spc = "none"
  /\ spc' = "list"
  /\ log' = Append(log, "scrapeListAndDetails")
  /\ UNCHANGED <<variant, cfgOk, site, file, mpc, prev, list, queue, i, wpc,
                 wItem, courses, diffs, exitCode, failCause, outcome, fetches,
                 input, output, earlier>>

\* The list of n stubs is extracted; the synchronous code up to
\* `await Promise.all(workers)` runs: queue = list.slice() and the spawn loop.
\* The scraper with login returns [] at once on an empty list.
ListOk(n) ==
  /\ exitCode = Running
  /\ spc = "list"
  /\ list' = [k \in 1..n |-> k]
  /\ IF variant = "shift" /\ n = 0
       THEN /\ spc' = "browserClose"
            /\ UNCHANGED <<queue, i, wpc, wItem, fetches>>
       ELSE /\ spc' = "join"
            /\ SetPool(SpawnFrom(variant,
                 [queue |-> list', i |-> 0, wpc |-> NoWorkers,
                  wItem |-> NoItems], 0))
  /\ UNCHANGED <<variant, cfgOk, site, file, mpc, prev, courses, diffs,
                 exitCode, failCause, log, outcome, input, output, earlier>>

\* chromium.launch, page.goto, ... reject: main().catch exits with 1.
ListThrow ==
  /\ exitCode = Running
  /\ spc = "list"
  /\ Exit1("source")
  /\ UNCHANGED <<variant, cfgOk, site, file, mpc, spc, prev, list, queue, i,
                 wpc, wItem, courses, diffs, log, outcome, fetches, input,
                 output, earlier>>

\* The scraper with login finds no login form: process.exit(1).
LoginMissing ==
  /\ exitCode = Running
  /\ spc = "list"
  /\ variant = "shift"
  /\ Exit1("login")
  /\ UNCHANGED <<variant, cfgOk, site, file, mpc, spc, prev, list, queue, i,
                 wpc, wItem, courses, diffs, log, outcome, fetches, input,
                 output, earlier>>

\* fetchDetail: `await context.newPage()` resolves; the try block is entered.
NewPageOk(w) ==
  /\ exitCode = Running
  /\ wpc[w] = "newPage"
  /\ wpc' = [wpc EXCEPT ![w] = "detail"]
  /\ UNCHANGED <<variant, cfgOk, site, file, mpc, spc, prev, list, queue, i,
                 wItem, courses, diffs, exitCode, failCause, log, outcome,
                 fetches, input, output, earlier>>

\* fetchDetail: `await context.newPage()` rejects, outside the try block: the
\* worker's promise rejects.
NewPageThrow(w) ==
  /\ exitCode = Running
  /\ wpc[w] = "newPage"
  /\ wpc' = [wpc EXCEPT ![w] = "rejected"]
  /\ UNCHANGED <<variant, cfgOk, site, file, mpc, spc, prev, list, queue, i,
                 wItem, courses, diffs, exitCode, failCause, log, outcome,
                 fetches, input, output, earlier>>

\* fetchDetail: goto, waitForLoadState and evaluate resolve; base and hash
\* are built and the record is pushed; finally: `await p.close()`.
DetailOk(w) ==
  /\ exitCode = Running
  /\ wpc[w] = "detail"
  /\ courses' = Append(courses,
                  BuildCourse(StubAt(wItem[w], site), PayloadAt(wItem[w], site)))
  /\ outcome' = [outcome EXCEPT ![wItem[w]] = "ok"]
  /\ wpc' = [wpc EXCEPT ![w] = "close"]
  /\ UNCHANGED <<variant, cfgOk, site, file, mpc, spc, prev, list, queue, i,
                 wItem, diffs, exitCode, failCause, log, fetches, input,
                 output, earlier>>

OnFetchError_partialRecord(cs, item) ==
  Append(cs, BuildCourse(item, [bodyText |-> <<>>, updatedAt |-> <<>>,
                                room |-> <<>>]))

\* fetchDetail's catch block: a warning is logged, courses is not touched.
OnFetchError(cs, item) == cs

\* fetchDetail: goto, waitForLoadState or evaluate rejects; catch logs the
\* failure; finally: `await p.close()`.
DetailFail(w) ==
  /\ exitCode = Running
  /\ wpc[w] = "detail"
  /\ courses' = OnFetchError(courses, StubAt(wItem[w], site))
  /\ outcome' = [outcome EXCEPT ![wItem[w]] = "failed"]
  /\ wpc' = [wpc EXCEPT ![w] = "close"]
  /\ UNCHANGED <<variant, cfgOk, site, file, mpc, spc, prev, list, queue, i,
                 wItem, diffs, exitCode, failCause, log, fetches, input,
                 output, earlier>>

AfterClose_noDelayOnFailure(result) ==
  IF result = "failed" THEN "loop" ELSE "sleep"

\* What fetchDetail does once p.close() has resolved: `await sleep(...)`,
\* whatever the result of the try block.
AfterClose(result) == "sleep"

\* fetchDetail: p.close() resolves.
CloseOk(w) ==
  /\ exitCode = Running
  /\ wpc[w] = "close"
  /\ IF AfterClose(outcome[wItem[w]]) = "sleep"
       THEN /\ wpc' = [wpc EXCEPT ![w] = "sleep"]
            /\ UNCHANGED <<queue, i, wItem, fetches>>
       ELSE SetPool(WorkerLoop(variant, Pool, w))
  /\ UNCHANGED <<variant, cfgOk, site, file, mpc, spc, prev, list, courses,
                 diffs, exitCode, failCause, log, outcome, input, output,
                 earlier>>

\* fetchDetail: p.close() rejects inside finally: the worker's promise rejects.
CloseThrow(w) ==
  /\ exitCode = Running
  /\ wpc[w] = "close"
  /\ wpc' = [wpc EXCEPT ![w] = "rejected"]
  /\ UNCHANGED <<variant, cfgOk, site, file, mpc, spc, prev, list, queue, i,
                 wItem, courses, diffs, exitCode, failCause, log, outcome,
                 fetches, input, output, earlier>>

\* The pacing delay is over: fetchDetail returns and the worker's loop head
\* runs again.
SleepDone(w) ==
  /\ exitCode = Running
  /\ wpc[w] = "sleep"
  /\ SetPool(WorkerLoop(variant, Pool, w))
  /\ UNCHANGED <<variant, cfgOk, site, file, mpc, spc, prev, list, courses,
                 diffs, exitCode, failCause, log, outcome, input, output,
                 earlier>>

JoinReady_any ==
  \/ \A w \in Workers : wpc[w] = "idle"
  \/ \E w \in Workers : wpc[w] = "done"

\* Promise.all(workers) is fulfilled: every started worker has returned.
JoinReady == \A w \in Workers : wpc[w] \in {"idle", "done"}

\* await Promise.all(workers) resumes; `await browser.close()`.
JoinResolve ==
  /\ exitCode = Running
  /\ spc = "join"
  /\ JoinReady
  /\ spc' = "browserClose"
  /\ UNCHANGED <<variant, cfgOk, site, file, mpc, prev, list, queue, i, wpc,
                 wItem, courses, diffs, exitCode, failCause, log, outcome,
                 fetches, input, output, earlier>>

\* Promise.all(workers) rejects with a worker's error: scrapeListAndDetails
\* and main reject, main().catch exits with 1.
JoinReject ==
  /\ exitCode = Running
  /\ spc = "join"
  /\ \E w \in Workers : wpc[w] = "rejected"
  /\ Exit1("worker")
  /\ UNCHANGED <<variant, cfgOk, site, file, mpc, spc, prev, list, queue, i,
                 wpc, wItem, courses, diffs, log, outcome, fetches, input,
                 output, earlier>>

\* browser.close() resolves and scrapeListAndDetails returns courses.
BrowserCloseOk ==
  /\ exitCode = Running
  /\ spc = "browserClose"
  /\ spc' = "none"
  /\ Advance
  /\ UNCHANGED <<variant, cfgOk, site, file, prev, list, queue, i, wpc, wItem,
                 courses, diffs, log, outcome, fetches, input, output,
                 earlier>>

BrowserCloseThrow ==
  /\ exitCode = Running
  /\ spc = "browserClose"
  /\ Exit1("source")
  /\ UNCHANGED <<variant, cfgOk, site, file, mpc, spc, prev, list, queue, i,
                 wpc, wItem, courses, diffs, log, outcome, fetches, input,
                 output, earlier>>

Reconcile_consumesPrev ==
  /\ exitCode = Running
  /\ Stmt = "compareCourses"
  /\ diffs' = compareCourses(prev, MapFrom(courses))
  /\ prev' = diffs'.removed
  /\ log' = Append(log, "compareCourses")
  /\ Advance
  /\ UNCHANGED <<variant, cfgOk, site, file, spc, list, queue, i, wpc, wItem,
                 courses, outcome, fetches, input, output, earlier>>

\* const currMap = new Map(...); const diffs = compareCourses(prev, currMap);
Reconcile ==
  /\ exitCode = Running
  /\ Stmt = "compareCourses"
  /\ diffs' = compareCourses(prev, MapFrom(courses))
  /\ log' = Append(log, "compareCourses")
  /\ Advance
  /\ UNCHANGED <<variant, cfgOk, site, file, spc, prev, list, queue, i, wpc,
                 wItem, courses, outcome, fetches, input, output, earlier>>

\* await notifySlack(SLACK_WEBHOOK_URI, diffs): no webhook, or the POST is
\* answered.
NotifyOk ==
  /\ exitCode = Running
  /\ Stmt = "notifySlack"
  /\ log' = Append(log, "notifySlack")
  /\ Advance
  /\ UNCHANGED <<variant, cfgOk, site, file, spc, prev, list, queue, i, wpc,
                 wItem, courses, diffs, outcome, fetches, input, output,
                 earlier>>

\* notifySlack: fetch(webhook, ...) rejects.
NotifyThrow ==
  /\ exitCode = Running
  /\ Stmt = "notifySlack"
  /\ log' = Append(log, "notifySlack")
  /\ Exit1("notify")
  /\ UNCHANGED <<variant, cfgOk, site, file, mpc, spc, prev, list, queue, i,
                 wpc, wItem, courses, diffs, outcome, fetches, input, output,
                 earlier>>

SaveOk_carriesOver ==
  /\ exitCode = Running
  /\ Stmt = "saveCurr"
  /\ LET Gone(p) == ~MapHas(MapFrom(courses), p.id)
     IN file' = saveCurr(courses \o SelectSeq(prev, Gone))
  /\ log' = Append(log, "saveCurr")
  /\ Advance
  /\ UNCHANGED <<variant, cfgOk, site, spc, prev, list, queue, i, wpc,
                 wItem, courses, diffs, outcome, fetches, input, output,
                 earlier>>

\* saveCurr(OUTPUT_JSON, currArr);
SaveOk ==
  /\ exitCode = Running
  /\ Stmt = "saveCurr"
  /\ file' = saveCurr(courses)
  /\ log' = Append(log, "saveCurr")
  /\ Advance
  /\ UNCHANGED <<variant, cfgOk, site, spc, prev, list, queue, i, wpc, wItem,
                 courses, diffs, outcome, fetches, input, output, earlier>>

SaveThrow_swallowed ==
  /\ exitCode = Running
  /\ Stmt = "saveCurr"
  /\ file' \in {file, GarbageFile}
  /\ log' = Append(log, "saveCurr")
  /\ Advance
  /\ UNCHANGED <<variant, cfgOk, site, spc, prev, list, queue, i, wpc, wItem,
                 courses, diffs, outcome, fetches, input, output, earlier>>

\* saveCurr: mkdirSync or writeFileSync throws; the file is untouched or
\* holds a truncated text.
SaveThrow ==
  /\ exitCode = Running
  /\ Stmt = "saveCurr"
  /\ file' \in {file, GarbageFile}
  /\ log' = Append(log, "saveCurr")
  /\ Exit1("save")
  /\ UNCHANGED <<variant, cfgOk, site, spc, mpc, prev, list, queue, i, wpc,
                 wItem, courses, diffs, outcome, fetches, input, output,
                 earlier>>

\* The process has exited; the scraper is started again later, the site
\* being in any of its states.
NextRun ==
  /\ exitCode # Running
  /\ site' \in Versions
  /\ mpc' = 0
  /\ spc' = "none"
  /\ prev' = <<>>
  /\ list' = <<>>
  /\ queue' = <<>>
  /\ i' = 0
  /\ wpc' = NoWorkers
  /\ wItem' = NoItems
  /\ courses' = <<>>
  /\ diffs' = NoDiffs
  /\ exitCode' = Running
  /\ failCause' = "none"
  /\ log' = <<>>
  /\ outcome' = [k \in Rows |-> "none"]
  /\ fetches' = [k \in Rows |-> 0]
  /\ UNCHANGED <<variant, cfgOk, file, input, output, earlier>>

\* Every step of one run but the arrival of the stub list.
RunStep ==
  \/ ConfigCheck
  \/ LoadPrev
  \/ ScrapeStart
  \/ ListThrow
  \/ LoginMissing
  \/ \E w \in Workers : NewPageOk(w)
  \/ \E w \in Workers : NewPageThrow(w)
  \/ \E w \in Workers : DetailOk(w)
  \/ \E w \in Workers : DetailFail(w)
  \/ \E w \in Workers : CloseOk(w)
  \/ \E w \in Workers : CloseThrow(w)
  \/ \E w \in Workers : SleepDone(w)
  \/ JoinResolve
  \/ JoinReject
  \/ BrowserCloseOk
  \/ BrowserCloseThrow
  \/ Reconcile
  \/ NotifyOk
  \/ NotifyThrow
  \/ SaveOk
  \/ SaveThrow

\* One run of either scraper on a list of up to MaxStubs stubs.
Next ==
  \/ RunStep
  \/ \E n \in 0..MaxStubs : ListOk(n)

Spec == Init /\ [][Next]_vars

\* The steps of worker w (DetailFail and DetailOk have the same guard).
WorkerStep(w) ==
  \/ NewPageOk(w)
  \/ NewPageThrow(w)
  \/ DetailFail(w)
  \/ DetailOk(w)
  \/ CloseOk(w)
  \/ CloseThrow(w)
  \/ SleepDone(w)

\* Every awaited promise settles: a page opens or fails to, a detail fetch
\* returns or fails, a timer fires, and a continuation that is ready runs
\* (the event loop runs every queued job).
Fairness ==
  /\ \A w \in Workers : WF_vars(WorkerStep(w))
  /\ WF_vars(JoinResolve \/ JoinReject)
  /\ WF_vars(BrowserCloseOk \/ BrowserCloseThrow)
  /\ WF_vars(ConfigCheck \/ LoadPrev \/ ScrapeStart)
  /\ WF_vars(ListThrow \/ LoginMissing \/ \E n \in 0..MaxStubs : ListOk(n))
  /\ WF_vars(Reconcile \/ NotifyOk \/ NotifyThrow \/ SaveOk \/ SaveThrow)

\* One run in which every awaited promise settles.
SpecLive == Init /\ [][Next]_vars /\ Fairness

\* Any number of consecutive runs on lists of up to MaxRunStubs stubs.
NextRuns ==
  \/ RunStep
  \/ \E n \in 0..MaxRunStubs : ListOk(n)
  \/ NextRun

SpecRuns == Init /\ [][NextRuns]_vars

\* The first process has exited and the scraper is started a second time;
\* earlier keeps the site and the list of the first run if it ended with
\* status 0 and none of its fetches failed, and, if it ended with status 0,
\* the ids of its previous snapshot with a failed fetch (lost) and the ids of
\* the records it saved (kept).
Rerun ==
  /\ exitCode # Running
  /\ earlier = <<>>
  /\ LET clean == exitCode = 0 /\ \A k \in 1..Len(list) : outcome[k] = "ok"
         failed == {k \in 1..Len(list) : outcome[k] = "failed"}
         IdAt(k) == BuildCourse(StubAt(k, site), PayloadAt(k, site)).id
     IN earlier' = <<[clean |-> clean,
                      site |-> IF clean THEN site ELSE 0,
                      list |-> IF clean THEN list ELSE <<>>,
                      lost |-> IF exitCode = 0
                                 THEN {IdAt(k) : k \in failed} \cap MapKeys(prev)
                                 ELSE {},
                      kept |-> IF exitCode = 0
                                 THEN {courses[k].id : k \in 1..Len(courses)}
                                 ELSE {}]>>
  /\ site' \in Versions
  /\ mpc' = 0
  /\ spc' = "none"
  /\ prev' = <<>>
  /\ list' = <<>>
  /\ queue' = <<>>
  /\ i' = 0
  /\ wpc' = NoWorkers
  /\ wItem' = NoItems
  /\ courses' = <<>>
  /\ diffs' = NoDiffs
  /\ exitCode' = Running
  /\ failCause' = "none"
  /\ log' = <<>>
  /\ outcome' = [k \in Rows |-> "none"]
  /\ fetches' = [k \in Rows |-> 0]
  /\ UNCHANGED <<variant, cfgOk, file, input, output>>

\* Two consecutive runs on lists of up to MaxRunStubs stubs.
NextTwice ==
  \/ RunStep
  \/ \E n \in 0..MaxRunStubs : ListOk(n)
  \/ Rerun

SpecTwice == Init /\ [][NextTwice]_vars

\* Two consecutive runs, the first of which finds the snapshot of an earlier
\* run on rows 1 and 2 of the baseline, the site being the baseline or
\* DupSite.
InitDrop ==
  /\ variant \in {"index", "shift"}
  /\ cfgOk \in BOOLEAN
  /\ site \in {1, DupSite}
  /\ file = saveCurr(<<BuildCourse(StubAt(1, 1), PayloadAt(1, 1)),
                       BuildCourse(StubAt(2, 1), PayloadAt(2, 1))>>)
  /\ FreshRun

SpecDrop == InitDrop /\ [][NextTwice]_vars

\* ------------------------------------- compareCourses and saveCurr alone

\* Longest record list given to compareCourses and to saveCurr (SpecCompare,
\* SpecStore).
MaxSnap == 2

\* A Course object with the given id, hash, detail URL and room.
CourseOf(id, hash, url, room) ==
  [id |-> id, title |-> <<"T">>, instructor |-> <<"I">>, term |-> <<"H">>,
   dayPeriod |-> <<"M">>, room |-> room, updatedAt |-> <<"d">>,
   bodyText |-> <<"x">>, detailUrl |-> url, hash |-> hash]

SnapIds == {<<"c", ToString(k)>> : k \in 1..MaxSnap}

\* Lists of at most MaxSnap records over R.
ListsOver(R) == UNION {[1..n -> R] : n \in 0..MaxSnap}

DistinctIds(arr) ==
  \A j, k \in 1..Len(arr) : arr[j].id = arr[k].id => j = k

\* Records whose hash is any token: a snapshot file is not validated when it
\* is loaded, and a digest may collide.
AnyHashCourses ==
  {CourseOf(id, h, u, <<>>) :
     id \in SnapIds, h \in {<<"h1">>, <<"h2">>}, u \in {<<"u1">>, <<"u2">>}}

\* Records as saveCurr may be given them: room present, empty or absent.
AnyRoomCourses ==
  {CourseOf(id, <<"h1">>, u, r) :
     id \in SnapIds, u \in {<<"u1">>, <<"u2">>}, r \in {Undef, <<>>, <<"R">>}}

\* Number of the statement `name` of main().
StmtIndex(v, name) ==
  CHOOSE k \in 1..Len(main(v)) : main(v)[k] = name

\* main() is about to run statement `name` on the given prev and courses.
AtStatement(name, p, cs) ==
  /\ variant \in {"index", "shift"}
  /\ cfgOk = TRUE
  /\ site = 1
  /\ file = NoFile
  /\ mpc = StmtIndex(variant, name)
  /\ spc = "none"
  /\ prev = p
  /\ list = <<>>
  /\ queue = <<>>
  /\ i = 0
  /\ wpc = NoWorkers
  /\ wItem = NoItems
  /\ courses = cs
  /\ diffs = NoDiffs
  /\ exitCode = Running
  /\ failCause = "none"
  /\ log = SubSeq(main(variant), 1, StmtIndex(variant, name) - 1)
  /\ outcome = [k \in Rows |-> "none"]
  /\ fetches = [k \in Rows |-> 0]
  /\ input = <<>>
  /\ output = <<>>
  /\ earlier = <<>>

\* compareCourses on any two snapshots.
InitCompare ==
  \E p \in {m \in ListsOver(AnyHashCourses) : DistinctIds(m)} :
    \E cs \in {m \in ListsOver(AnyHashCourses) : DistinctIds(m)} :
      AtStatement("compareCourses", p, cs)

NextCompare == Reconcile

SpecCompare == InitCompare /\ [][NextCompare]_vars

\* saveCurr on any record list.
InitStore ==
  \E cs \in ListsOver(AnyRoomCourses) : AtStatement("saveCurr", <<>>, cs)

NextStore == SaveOk \/ SaveThrow

SpecStore == InitStore /\ [][NextStore]_vars

\* Snapshot files a run may find: none, texts that make loadPrev's try block
\* throw, arrays of objects that are no Course, and arrays saveCurr wrote.
SnapshotFiles ==
  {NoFile, GarbageFile, NoArrayFile, NullItemFile, IdlessFile,
   saveCurr(<<>>),
   saveCurr(<<BuildCourse(StubAt(1, 1), PayloadAt(1, 1))>>)}

\* One run of either scraper that finds any snapshot file.
InitLoad ==
  /\ variant \in {"index", "shift"}
  /\ cfgOk \in BOOLEAN
  /\ site = 1
  /\ file \in SnapshotFiles
  /\ FreshRun

NextLoad ==
  \/ RunStep
  \/ \E n \in 0..MaxRunStubs : ListOk(n)

SpecLoad == InitLoad /\ [][NextLoad]_vars

\* --------------------------------------------------- functions run alone

\* The variables of a run, which a function run alone leaves as they are.
runVars ==
  <<variant, cfgOk, site, file, mpc, spc, prev, list, queue, i, wpc,
    wItem, courses, diffs, exitCode, failCause, log, outcome, fetches,
    earlier>>

\* No run is in progress; a function is about to be applied to args.
Alone(args) ==
  /\ variant = "index"
  /\ cfgOk = TRUE
  /\ site = 1
  /\ file = NoFile
  /\ mpc = 0
  /\ spc = "none"
  /\ prev = <<>>
  /\ list = <<>>
  /\ queue = <<>>
  /\ i = 0
  /\ wpc = NoWorkers
  /\ wItem = NoItems
  /\ courses = <<>>
  /\ diffs = NoDiffs
  /\ exitCode = Running
  /\ failCause = "none"
  /\ log = <<>>
  /\ outcome = [k \in Rows |-> "none"]
  /\ fetches = [k \in Rows |-> 0]
  /\ input = args
  /\ output = <<>>
  /\ earlier = <<>>

\* Values of the title and instructor fields of the records given to
\* makeHash alone: empty, plain, with white space, with the separator.
HashTexts == {<<>>, <<"a">>, <<"a", " ">>, <<"|">>, <<"a", "|">>}

HashCourses ==
  {[CourseOf(<<"c", "1">>, <<>>, <<"u1">>, <<>>)
      EXCEPT !.title = t, !.instructor = u] : t \in HashTexts, u \in HashTexts}

\* makeHash on any two records.
InitHash == \E a \in HashCourses : \E b \in HashCourses : Alone(<<a, b>>)

\* makeHash(course) for the next record of input.
Fingerprint ==
  /\ Len(output) < Len(input)
  /\ output' = Append(output, makeHash(input[Len(output) + 1]))
  /\ UNCHANGED <<input, runVars>>

NextHash == Fingerprint

SpecHash == InitHash /\ [][NextHash]_vars

\* An ordinary character, the space, CR, LF and the non-breaking space.
TextChars == {"a", " ", "\r", "\n", NBSP}

Texts == UNION {[1..n -> TextChars] : n \in 0..MaxText}

\* normalizeText on any string.
InitText == \E s \in Texts : Alone(<<s>>)

\* normalizeText(s), then normalizeText of its result.
Canonicalize ==
  /\ Len(output) < 2
  /\ output' = Append(output,
                  normalizeText(IF output = <<>> THEN input[1]
                                ELSE output[Len(output)]))
  /\ UNCHANGED <<input, runVars>>

NextText == Canonicalize

SpecText == InitText /\ [][NextText]_vars

NoiseTexts == UNION {[1..n -> TextChars] : n \in 0..MaxNoise}

\* The stub of row 1 as the list page serves it, t inside its title and as
\* its term.
RawItem(t) ==
  [StubAt(1, 1) EXCEPT !.title = <<"x">> \o t \o <<"y">>, !.term = t]

\* The detail page of row 1, its body text t.
RawPayload(t) == [PayloadAt(1, 1) EXCEPT !.bodyText = t]

\* The same row served twice, with any two texts.
InitNoise ==
  \E t1 \in NoiseTexts : \E t2 \in NoiseTexts : Alone(<<t1, t2>>)

\* fetchDetail's try block on the row as served the next time.
FetchRaw ==
  /\ Len(output) < Len(input)
  /\ output' = Append(output,
                  BuildCourse(RawItem(input[Len(output) + 1]),
                              RawPayload(input[Len(output) + 1])))
  /\ UNCHANGED <<input, runVars>>

\* compareCourses on the snapshots of the two fetches.
CompareRaw ==
  /\ Len(output) = 2
  /\ log = <<>>
  /\ diffs' = compareCourses(MapFrom(<<output[1]>>), MapFrom(<<output[2]>>))
  /\ log' = <<"compareCourses">>
  /\ UNCHANGED <<input, output, variant, cfgOk, site, file, mpc, spc, prev,
                 list, queue, i, wpc, wItem, courses, exitCode, failCause,
                 outcome, fetches, earlier>>

NextNoise == FetchRaw \/ CompareRaw

SpecNoise == InitNoise /\ [][NextNoise]_vars

\* ---------------------------------------------------------------- claims

Started == {w \in Workers : wpc[w] # "idle"}

\* scrapeListAndDetails has returned to main (statement 2 is complete).
FetchStageReturned == mpc > 2

FailedRows == {k \in 1..Len(list) : outcome[k] = "failed"}

OkRows == {k \in 1..Len(list) : outcome[k] = "ok"}

\* The record fetchDetail builds for row k in this run.
RecordOf(k) == BuildCourse(StubAt(k, site), PayloadAt(k, site))

Occurrences(arr, c) == Cardinality({j \in 1..Len(arr) : arr[j] = c})

Last(q) == q[Len(q)]

IsPrefix(a, b) == Len(a) <= Len(b) /\ a = SubSeq(b, 1, Len(a))

\* C1: for every stub list of length n the fetch stage starts exactly
\* min(W, n) workers, W = 3, in the index-based and in the queue.shift()-based
\* pool.  (list is empty and no worker is started until the list arrives; the
\* spawn loop runs in the step in which it arrives.)
C1_StartsMinWorkers ==
  Cardinality(Started) = Min(3, Len(list))

\* C2: when k of the n detail fetches fail, the record collection the fetch
\* stage returns holds exactly n - k records: one for each stub fetched
\* successfully and none for a failed stub, whatever the interleaving.
C2_RecordsPerSuccess ==
  FetchStageReturned =>
    /\ \A k \in 1..Len(list) : outcome[k] \in {"ok", "failed"}
    /\ Len(courses) = Len(list) - Cardinality(FailedRows)
    /\ \A k \in 1..Len(list) :
         Occurrences(courses, RecordOf(k)) = IF k \in OkRows THEN 1 ELSE 0

\* C2's case: four stubs, two failed fetches, two records returned.
C2_Witness ==
  /\ FetchStageReturned
  /\ Len(list) = 4
  /\ Cardinality(FailedRows) = 2
  /\ Len(courses) = 2

\* C3: an error raised inside a worker while it handles a stub never makes
\* the run fail (a run fails only for a missing configuration value or a
\* failed save).
C3_WorkerErrorNeverFailsRun ==
  exitCode = 1 => failCause # "worker"

\* C4 as stated: the statements of a run occur in the order load, fetch,
\* reconcile, persist, notify; the snapshot is persisted before the diff is
\* handed to the notifier.
C4_PersistBeforeNotify ==
  IsPrefix(log, <<"loadPrev", "scrapeListAndDetails", "compareCourses",
                  "saveCurr", "notifySlack">>)

\* C4 amended: the statements of a run of the notifying scraper occur in the
\* order load, fetch, reconcile, notify, persist, the diff being handed to the
\* notifier before the snapshot is persisted; the scraper with login runs
\* load, fetch, reconcile, persist and hands the diff to no notifier.  A run
\* that ends with status 0 has run all of them.
C4_NotifyBeforePersist ==
  LET order == IF variant = "index"
                 THEN <<"loadPrev", "scrapeListAndDetails", "compareCourses",
                        "notifySlack", "saveCurr">>
                 ELSE <<"loadPrev", "scrapeListAndDetails", "compareCourses",
                        "saveCurr">>
  IN /\ IsPrefix(log, order)
     /\ exitCode = 0 => log = order

\* C4's case: a run of the notifying scraper that handed over the diff and
\* saved the snapshot.
C4_Witness ==
  /\ variant = "index"
  /\ exitCode = 0
  /\ Len(log) = 5
  /\ file.valid

\* C5: reconciliation and persistence never start while a worker is still
\* running or a stub is unprocessed or in flight.
C5_FullBarrier ==
  FetchStageReturned =>
    /\ \A w \in Workers : wpc[w] \in {"idle", "done"}
    /\ \A w \in Workers : wItem[w] = 0
    /\ \A k \in 1..Len(list) : fetches[k] = 1 /\ outcome[k] # "none"
    /\ variant = "shift" => queue = <<>>
    /\ variant = "index" => i >= Len(queue)

\* C5's case: reconciliation has run after three workers drained four stubs.
C5_Witness ==
  /\ "compareCourses" \in {log[k] : k \in 1..Len(log)}
  /\ Len(list) = 4
  /\ Cardinality(Started) = 3

\* C8: a worker starts a fetch only as its first one or when the pacing
\* delay that follows its previous fetch, successful or failed, has just
\* completed.
C8_DelayBeforeNextFetch ==
  [][\A w \in Workers :
       (wpc'[w] = "newPage" /\ wpc[w] # "newPage")
         => wpc[w] \in {"idle", "sleep"}]_vars

\* C8's case: the single worker of the queue.shift() pool on two stubs has
\* failed to fetch the first one and is fetching the second.
C8_Witness ==
  /\ variant = "shift"
  /\ Len(list) = 2
  /\ outcome[1] = "failed"
  /\ wpc[1] = "newPage"
  /\ wItem[1] = 2

\* compareCourses has run in this state.
Reconciled == log # <<>> /\ Last(log) = "compareCourses"

\* The current snapshot main() gives to compareCourses.
CurrMap == MapFrom(courses)

IdsOf(arr) == {arr[k].id : k \in 1..Len(arr)}

AfterIdsOf(ch) == {ch[k].after.id : k \in 1..Len(ch)}

\* The ids of both snapshots whose two records have the same fingerprint.
UnchangedIds ==
  {id \in IdsOf(prev) \cap IdsOf(CurrMap) :
     MapGet(prev, id).hash = MapGet(CurrMap, id).hash}

\* C6: reconcile puts every id of either snapshot into exactly one of added,
\* changed, removed, unchanged, with |added| + |changed| + |unchanged| =
\* |current| and |removed| + |changed| + |unchanged| = |previous|.
C6_ReconcilePartition ==
  Reconciled =>
    LET A == IdsOf(diffs.added)
        C == AfterIdsOf(diffs.changed)
        R == IdsOf(diffs.removed)
        U == UnchangedIds
    IN /\ A \cup C \cup R \cup U = IdsOf(prev) \cup IdsOf(CurrMap)
       /\ A \cap C = {} /\ A \cap R = {} /\ A \cap U = {}
       /\ C \cap R = {} /\ C \cap U = {} /\ R \cap U = {}
       /\ Cardinality(A) = Len(diffs.added)
       /\ Cardinality(C) = Len(diffs.changed)
       /\ Cardinality(R) = Len(diffs.removed)
       /\ Len(diffs.added) + Len(diffs.changed) + Cardinality(U) = Len(CurrMap)
       /\ Len(diffs.removed) + Len(diffs.changed) + Cardinality(U) = Len(prev)

\* C6's case: a reconciliation of two snapshots of two records, one changed
\* and one unchanged.
C6_Witness ==
  /\ Reconciled
  /\ Len(prev) = 2
  /\ Len(CurrMap) = 2
  /\ Len(diffs.changed) = 1
  /\ Cardinality(UnchangedIds) = 1

\* C7: an id of both snapshots yields a changed entry, with before the
\* previous and after the current record, exactly if the two fingerprints
\* differ; with equal fingerprints it yields no diff entry at all, even if
\* the detail URL differs.
C7_FingerprintSoleSignal ==
  Reconciled =>
    \A id \in IdsOf(prev) \cap IdsOf(CurrMap) :
      LET p == MapGet(prev, id)
          c == MapGet(CurrMap, id)
          entries == {k \in 1..Len(diffs.changed) : diffs.changed[k].after.id = id}
      IN /\ (entries # {}) <=> (p.hash # c.hash)
         /\ \A k \in entries :
              diffs.changed[k].before = p /\ diffs.changed[k].after = c
         /\ Cardinality(entries) <= 1
         /\ id \notin IdsOf(diffs.added)
         /\ id \notin IdsOf(diffs.removed)

\* C7's case: one id with equal fingerprints and different detail URLs, and
\* another id with different fingerprints.
C7_Witness ==
  /\ Reconciled
  /\ \E id \in IdsOf(prev) \cap IdsOf(CurrMap) :
       /\ MapGet(prev, id).hash = MapGet(CurrMap, id).hash
       /\ MapGet(prev, id).detailUrl # MapGet(CurrMap, id).detailUrl
  /\ Len(diffs.changed) = 1

\* The records of the snapshot file, none when it does not parse.
FileRecords ==
  IF file.exists /\ file.valid /\ file.shape = "array"
    THEN JsonParse(file.items) ELSE <<>>

\* Every record of recs carries the hash makeHash gives for its fields.
AllConsistent(recs) ==
  \A k \in 1..Len(recs) : recs[k].hash = makeHash(recs[k])

\* C9: in any sequence of runs that starts without a snapshot file, every
\* record of the current record collection, of the persisted snapshot and of
\* the loaded previous snapshot has the fingerprint of its own other fields:
\* this holds at the start, and every step that changes one of the three
\* leaves all of its records with the fingerprint of their fields.
C9_FingerprintConsistent ==
  /\ AllConsistent(courses) /\ AllConsistent(FileRecords) /\ AllConsistent(prev)
  /\ [][/\ courses' # courses => AllConsistent(courses')
        /\ file' # file => AllConsistent(FileRecords')
        /\ prev' # prev => AllConsistent(prev')]_vars

\* C9's case: a later run that loaded a previous snapshot, fetched records
\* of a changed site and persisted them.
C9_Witness ==
  /\ site = 3
  /\ prev # <<>>
  /\ courses # <<>>
  /\ exitCode = 0
  /\ FileRecords = courses

\* saveCurr has written the file in this state.
Saved == log # <<>> /\ Last(log) = "saveCurr" /\ exitCode = 0

\* C10 as stated: after saving any record list, loading the file gives a
\* snapshot that contains every saved record with all its fields; no saved
\* record is dropped.
C10_RoundTripLossless ==
  Saved =>
    \A j \in 1..Len(courses) :
      \E k \in 1..Len(loadPrev(file)) : loadPrev(file)[k] = courses[j]

\* C10 amended: after saving any record list, loading the file gives a
\* snapshot with exactly the ids of the list, which holds for each id the
\* record saved last with that id, all its fields unchanged; when the ids of
\* the list are pairwise distinct no saved record is dropped.
C10_RoundTripLastPerId ==
  Saved =>
    LET m == loadPrev(file)
    IN /\ IdsOf(m) = IdsOf(courses)
       /\ DistinctIds(m)
       /\ \A j \in 1..Len(courses) :
            (\A k \in (j + 1)..Len(courses) : courses[k].id # courses[j].id)
              => MapGet(m, courses[j].id) = courses[j]
       /\ DistinctIds(courses) => Len(m) = Len(courses)

\* C10's case: a saved list of two records with distinct ids, one without a
\* room and one with an empty room.
C10_Witness ==
  /\ Saved
  /\ Len(courses) = 2
  /\ DistinctIds(courses)
  /\ courses[1].room = Undef
  /\ courses[2].room = <<>>
  /\ Len(loadPrev(file)) = 2

\* The text of f is a JSON array of Course objects: every required property
\* of the type is there.
IsRecordList(f) ==
  /\ f.exists /\ f.valid /\ f.shape = "array"
  /\ \A k \in 1..Len(f.items) :
       \A name \in {"id", "title", "instructor", "term", "dayPeriod",
                    "bodyText", "detailUrl", "hash"} :
         ParseObject(f.items[k])[name] # Undef

Ran(name) == \E k \in 1..Len(log) : log[k] = name

\* C11: when the snapshot file is missing, unreadable or does not parse as a
\* record list, loadPrev returns an empty snapshot and the run goes on as a
\* first run: reconciliation classifies every record of the current snapshot
\* as added and none as changed or removed.  (The file is the one loadPrev
\* read as long as saveCurr has not run.)
C11_LoadEmptyFirstRun ==
  (~Ran("saveCurr") /\ ~IsRecordList(file)) =>
    /\ Ran("loadPrev") => prev = <<>>
    /\ Ran("compareCourses") =>
         diffs = [added |-> CurrMap, changed |-> <<>>, removed |-> <<>>]

\* C12: a failure while saving the current snapshot ends the run with a
\* non-zero exit status at the saveCurr statement, and a run that ends with
\* status 0 (the one that prints "Scrape done") has written the snapshot of
\* its record collection as its last statement.
C12_SaveFailurePropagates ==
  /\ failCause = "save" =>
       exitCode = 1 /\ mpc = StmtIndex(variant, "saveCurr")
  /\ exitCode = 0 =>
       Last(log) = "saveCurr" /\ file = saveCurr(courses)

\* C12's case: the notifying scraper has fetched records and handed over the
\* diff, and saveCurr failed leaving a truncated file.
C12_Witness ==
  /\ variant = "index"
  /\ failCause = "save"
  /\ courses # <<>>
  /\ Ran("notifySlack")
  /\ file = GarbageFile

\* C13: with a collision-free digest, two records have the same fingerprint
\* if and only if their canonicalized field tuples (title, instructor, term,
\* schedule, room, last-updated label, body text) are equal.
C13_FingerprintIffSameTuple ==
  Len(output) = 2 =>
    ((output[1] = output[2])
       <=> (CanonFields(input[1]) = CanonFields(input[2])))

\* C15: normalizeText is idempotent: for every string s over ordinary
\* characters, spaces, CR, LF and non-breaking spaces,
\* normalizeText(normalizeText(s)) = normalizeText(s).
C15_Idempotent ==
  Len(output) = 2 => output[2] = output[1]

\* C15's case: a string with an ordinary character, a line break and a
\* non-breaking space inside, which normalizeText changes, has been
\* normalized twice.
C15_Witness ==
  /\ Len(output) = 2
  /\ \E j, k \in 1..Len(input[1]) :
       input[1][j] = NBSP /\ input[1][k] = "\n"
  /\ output[1] # input[1]
  /\ Len(output[1]) = 3

\* The words of s: its characters that are no white space, each with the
\* mark of a word's first character.
WordsOf(s) ==
  LET White(c) == c \in {" ", "\r", "\n", NBSP}
      Inked(e) == e[1] # ""
  IN SelectSeq([k \in 1..Len(s) |->
                  IF White(s[k]) THEN <<"", FALSE>>
                  ELSE <<s[k], k = 1 \/ White(s[k - 1])>>], Inked)

\* The raw records a and b differ at most in their white space.
SameWords(a, b) ==
  \A f \in DOMAIN a : WordsOf(a[f]) = WordsOf(b[f])

\* C14: two raw records with the same id whose text fields differ only in
\* runs of spaces, line breaks or non-breaking spaces and in leading or
\* trailing white space get the same fingerprint, and compareCourses puts
\* them into no list of the diff.
C14_WhitespaceNeverAChange ==
  (/\ SameWords(RawItem(input[1]), RawItem(input[2]))
   /\ SameWords(RawPayload(input[1]), RawPayload(input[2]))) =>
    /\ Len(output) = 2 =>
         output[1].id = output[2].id /\ output[1].hash = output[2].hash
    /\ Ran("compareCourses") => diffs = NoDiffs

\* C14's case: the row was served with a non-breaking space and then with
\* CR LF in its place, and the two fetches were compared.
C14_Witness ==
  /\ Ran("compareCourses")
  /\ input = << <<NBSP>>, <<"\r", "\n">> >>
  /\ output[1].title = <<"x", " ", "y">>
  /\ diffs = NoDiffs

\* The record of arr with the given id that comes last in arr.
LastWithId(arr, id) ==
  arr[CHOOSE k \in 1..Len(arr) :
        /\ arr[k].id = id
        /\ \A j \in (k + 1)..Len(arr) : arr[j].id # id]

\* m has one entry for each id of arr, the record that comes last in arr.
LastWriterWins(m, arr) ==
  /\ DistinctIds(m)
  /\ IdsOf(m) = IdsOf(arr)
  /\ \A id \in IdsOf(arr) : MapGet(m, id) = LastWithId(arr, id)

\* C16: the ids of a snapshot are pairwise distinct, and for an id that two
\* stubs resolve to the snapshot holds one record, the one appended later to
\* the result collection: in the current snapshot built once the fetch stage
\* has returned, and in the snapshot loadPrev builds from the persisted list.
C16_LastWriterWins ==
  /\ FetchStageReturned => LastWriterWins(CurrMap, courses)
  /\ LastWriterWins(loadPrev(file), FileRecords)
  /\ DistinctIds(prev)

\* C16's case: rows 3 and 1 resolved to the same id and were appended in
\* this order; the run has saved both, and the snapshot loaded from the file
\* holds the record of row 1 alone for that id.
C16_Witness ==
  /\ exitCode = 0
  /\ \E j, k \in 1..Len(courses) :
       j < k /\ courses[j] = RecordOf(3) /\ courses[k] = RecordOf(1)
  /\ RecordOf(3).id = RecordOf(1).id
  /\ RecordOf(3) # RecordOf(1)
  /\ Len(FileRecords) = Len(courses)
  /\ MapGet(loadPrev(file), RecordOf(1).id) = RecordOf(1)
  /\ Len(loadPrev(file)) < Len(courses)

\* C17: compareCourses leaves both of its inputs as they are, and once
\* loadPrev has run no step of the run (fetch stage, reconciliation,
\* notification, save) changes the previous snapshot.
C17_InputsReadOnly ==
  [][/\ (Ran("loadPrev") /\ exitCode = Running) => prev' = prev
     /\ log' = Append(log, "compareCourses") =>
          prev' = prev /\ courses' = courses]_vars

\* C17's case: a run that loaded a snapshot of one record has fetched two
\* records, reconciled and notified, the loaded snapshot being what the file
\* holds.
C17_Witness ==
  /\ Ran("notifySlack")
  /\ Len(courses) = 2
  /\ Len(prev) = 1
  /\ prev = loadPrev(file)
  /\ Len(diffs.added) = 1

\* C18: under every interleaving each stub of the list is handed to
\* fetchDetail at most once, no two workers hold the same stub, and when the
\* fetch stage has completed every stub of the list has been handed to it
\* exactly once, in the index-based and in the queue.shift()-based pool.
C18_EachStubOnce ==
  /\ \A k \in Rows : fetches[k] <= (IF k \in 1..Len(list) THEN 1 ELSE 0)
  /\ \A v, w \in Workers :
       (v # w /\ wItem[v] # 0) => wItem[v] # wItem[w]
  /\ (spc = "browserClose" \/ FetchStageReturned) =>
       \A k \in 1..Len(list) : fetches[k] = 1

\* C18's case: the queue.shift() pool has completed the fetch stage on four
\* stubs, one of them failed.
C18_Witness ==
  /\ variant = "shift"
  /\ spc = "browserClose"
  /\ Len(list) = 4
  /\ Cardinality(Started) = 2
  /\ Cardinality(FailedRows) = 1
  /\ \A k \in 1..4 : fetches[k] = 1

\* The workers that are inside fetchDetail: the fetch has started and its
\* pacing delay is not over.
InFlight ==
  {w \in Workers : wpc[w] \in {"newPage", "detail", "close", "sleep"}}

\* C19: at every moment the number of detail fetches in flight (started and
\* not finished, the pacing delay included) is at most W = 3, for every stub
\* list length.
C19_AtMostWInFlight ==
  Cardinality(InFlight) <= 3

\* C19's case: four stubs, three fetches in flight, one of them in its
\* pacing delay, and the fourth stub not yet taken.
C19_Witness ==
  /\ Len(list) = 4
  /\ Cardinality(InFlight) = 3
  /\ \E w \in Workers : wpc[w] = "sleep"
  /\ fetches[4] = 0

\* Every worker has returned and no stub is left in the queue.
Drained ==
  /\ \A w \in Workers : wpc[w] \in {"idle", "done"}
  /\ variant = "shift" => queue = <<>>
  /\ variant = "index" => i >= Len(queue)

\* C20: when every detail fetch returns or fails, then once the stub list
\* has arrived the fetch stage eventually completes: all workers terminate
\* with the queue drained and the join returns (from where the run goes on
\* to reconciliation).
C20_FetchStageCompletes ==
  (spc = "join") ~> (spc = "browserClose" /\ Drained)

\* The ids the stubs of the list resolve to are pairwise distinct.
DistinctStubIds ==
  \A j, k \in 1..Len(list) : RecordOf(j).id = RecordOf(k).id => j = k

\* This run follows a run that ended with status 0 without a failed fetch,
\* on the same site and the same list, and none of its own fetches failed.
SecondOfTwoAlike ==
  /\ earlier # <<>>
  /\ earlier[1].clean
  /\ earlier[1].site = site
  /\ earlier[1].list = list
  /\ FailedRows = {}
  /\ DistinctStubIds

\* C21: the second of two consecutive successful runs against a source whose
\* stubs and detail payloads did not change, with no fetch failure in either
\* run and no two stubs resolving to the same id, has an empty diff, whatever
\* the worker interleavings of the two runs.
C21_SecondRunNoDiff ==
  (SecondOfTwoAlike /\ Ran("compareCourses")) => diffs = NoDiffs

\* C21's case: both runs fetched two stubs with both workers and saved them
\* in different orders.
C21_Witness ==
  /\ SecondOfTwoAlike
  /\ exitCode = 0
  /\ variant = "index"
  /\ Len(list) = 2
  /\ Len(prev) = 2
  /\ prev # courses
  /\ diffs = NoDiffs

\* The ids of the previous snapshot that a stub of the list resolves to whose
\* fetch failed in this run.
FailedIds == {RecordOf(k).id : k \in FailedRows} \cap IdsOf(prev)

\* The ids of the stubs fetched successfully in this run.
FetchedIds == {RecordOf(k).id : k \in OkRows}

\* C22 as stated: a record of the previous snapshot whose stub is listed and
\* whose fetch fails is in the removed list of the run's diff and absent from
\* the snapshot the run persists, and the next run, if it fetches it, has it
\* in its added list.
C22_FailedFetchRemoved ==
  /\ Ran("compareCourses") =>
       \A id \in FailedIds : id \in IdsOf(diffs.removed)
  /\ exitCode = 0 =>
       \A id \in FailedIds : id \notin IdsOf(loadPrev(file))
  /\ (earlier # <<>> /\ Ran("compareCourses")) =>
       \A id \in earlier[1].lost \cap FetchedIds : id \in IdsOf(diffs.added)

\* C22 amended: a record of the previous snapshot whose stub is listed and
\* whose fetch fails, no other stub that resolves to the same id being
\* fetched successfully, is in the removed list of the run's diff and absent
\* from the snapshot the run persists, and the next run, if it fetches it,
\* has it in its added list; when another stub with the same id is fetched
\* successfully, the id is not removed and stays in the persisted snapshot.
C22_FailedFetchRemovedUnlessRefetched ==
  /\ Ran("compareCourses") =>
       /\ \A id \in FailedIds \ FetchedIds : id \in IdsOf(diffs.removed)
       /\ \A id \in FailedIds \cap FetchedIds :
            id \notin IdsOf(diffs.removed) /\ id \notin IdsOf(diffs.added)
  /\ exitCode = 0 =>
       /\ \A id \in FailedIds \ FetchedIds : id \notin IdsOf(loadPrev(file))
       /\ \A id \in FailedIds \cap FetchedIds : id \in IdsOf(loadPrev(file))
  /\ (earlier # <<>> /\ Ran("compareCourses")) =>
       \A id \in (earlier[1].lost \ earlier[1].kept) \cap FetchedIds :
         id \in IdsOf(diffs.added)

\* C22's case: the run before lost the record of row 1 and saved its
\* snapshot without it; this run has fetched row 1 and lists it as added.
C22_Witness ==
  /\ earlier # <<>>
  /\ RecordOf(1).id \in earlier[1].lost \ earlier[1].kept
  /\ RecordOf(1).id \in FetchedIds
  /\ Ran("compareCourses")
  /\ RecordOf(1).id \in IdsOf(diffs.added)

====
